---- MODULE Spec2Model ----
(***************************************************************************)
(* The task-intake pipeline of the Bitrix task bot: the /task conversation *)
(* (src/bot_handlers.py), its attachment staging, the upload fan-out of    *)
(* _upload_files_to_bitrix_disk and the task submission of                 *)
(* cb_confirm_create.                                                      *)
(*                                                                         *)
(* One user talking to the bot in one chat is modelled: user_data is the   *)
(* bag of that user and task_state is the state of the one conversation of *)
(* the /task ConversationHandler for that user.  The application handles   *)
(* one update at a time, so no event is dispatched while cb_confirm_create *)
(* is suspended on a collaborator (pc # "idle").                           *)
(***************************************************************************)
EXTENDS Integers, Sequences, FiniteSets, TLC

\* ------------------------------------------------------------------------
\* Program constants
\* ------------------------------------------------------------------------
WAIT_TITLE == 0
WAIT_DESCRIPTION == 1
WAIT_ATTACHMENTS == 2
CONFIRM == 3
LINK_WAIT == 9901
\* ConversationHandler.END; also stands for "no conversation" (state None).
END == -1

MAX_ATTACHMENTS_PER_TASK == 10
MAX_ATTACHMENT_BYTES == 20 * 1024 * 1024

\* Python's None for an optional integer (a size, a linked Bitrix id).
None == 0

\* ------------------------------------------------------------------------
\* Bounds of the model
\* ------------------------------------------------------------------------
\* longest text message the user sends
MaxTextLen == 1
\* sessions started in one run (make_ticket_id is called once per session)
MaxTickets == 2
\* the user presses "confirm" only with at most this many staged files
MaxConfirmFiles == 2
\* largest configured number of upload attempts
MaxAttempts == 2
\* largest configured upload parallelism
MaxParallel == 2
\* task ids the ticketing collaborator hands out
MaxTaskId == 2
\* longest file list handed to _upload_files_to_bitrix_disk on its own
MaxUploadFiles == 3

\* ------------------------------------------------------------------------
\* Texts: a text is a sequence of characters; " " is whitespace, "7" a digit
\* ------------------------------------------------------------------------
Alphabet == {" ", "7"}

SeqsUpTo(S, n) == UNION {[1..k -> S] : k \in 0..n}

\* filters.TEXT holds only for a message with a non-empty text.
Texts == SeqsUpTo(Alphabet, MaxTextLen) \ {<<>>}

IsSpace(c) == c \in {" ", "\n"}

RECURSIVE LStrip(_)
LStrip(t) ==
    IF t # <<>> /\ IsSpace(Head(t)) THEN LStrip(Tail(t)) ELSE t

RECURSIVE RStrip(_)
RStrip(t) ==
    IF t # <<>> /\ IsSpace(t[Len(t)])
    THEN RStrip(SubSeq(t, 1, Len(t) - 1))
    ELSE t

\* str.strip()
Strip(t) == RStrip(LStrip(t))

\* ------------------------------------------------------------------------
\* The user_data bag: a function from the keys present to their values
\* ------------------------------------------------------------------------
EmptyBag == [k \in {} |-> None]

Get(bag, key, default) == IF key \in DOMAIN bag THEN bag[key] ELSE default

Put(bag, key, value) ==
    [k \in (DOMAIN bag) \cup {key} |-> IF k = key THEN value ELSE bag[k]]

\* ------------------------------------------------------------------------
\* State
\* ------------------------------------------------------------------------
VARIABLES
    task_state,   \* state of the /task conversation (END: none)
    link_state,   \* state of the /link conversation (END: none)
    user_data,    \* context.user_data of the user
    linked,       \* the Bitrix id the identity-link store holds for the user
    settings,     \* the configuration the handlers read
    ticket_seq,   \* number of ticket ids make_ticket_id has handed out
    pc,           \* where cb_confirm_create is suspended ("idle": nowhere)
    tasks,        \* the _upload_one coroutines of the running gather
    semaphore,    \* value of the asyncio.Semaphore of the running upload
    loc,          \* local variables of the last cb_confirm_create
    calls,        \* create_task calls made by the last cb_confirm_create
    sent,         \* chat messages sent while handling the last update
    downloads,    \* download_to_drive calls made while handling the last update
    handlers      \* the handlers run for the last update, in order

vars == <<task_state, link_state, user_data, linked, settings, ticket_seq, pc,
          tasks, semaphore, loc, calls, sent, downloads, handlers>>

Msg(kind) == [kind |-> kind]

\* the locals of cb_confirm_create before it has run
NoLocals ==
    [files |-> <<>>, title |-> <<>>, user_desc |-> <<>>, full_desc |-> <<>>,
     lookups |-> 0, created_by |-> None, uploaded_ids |-> <<>>,
     failed_files |-> <<>>, outcomes |-> <<>>]

\* Settings as config.load_settings may return them; allowed stands for
\* _is_allowed(settings, the user's id)
Settings ==
    [allowed : BOOLEAN,
     bitrix_upload_max_attempts : 0..MaxAttempts,
     bitrix_upload_parallelism : 0..MaxParallel,
     bitrix_default_responsible_id : {1},
     bitrix_group_id : {None},
     bitrix_priority : {2}]

\* the defaults of the upload: max_attempts = 2, UPLOAD_PARALLELISM
DefaultMaxAttempts == 2
UPLOAD_PARALLELISM == 2

DefaultSettings ==
    {st \in Settings :
        /\ st.bitrix_upload_max_attempts = DefaultMaxAttempts
        /\ st.bitrix_upload_parallelism = UPLOAD_PARALLELISM}

\* The state after main(): no conversation, an empty bag; the link store is
\* persistent, so the user may be linked already.  The upload runs with its
\* default settings here; UploadSpec below runs it with every setting.
Init ==
    /\ task_state = END
    /\ link_state = END
    /\ user_data = EmptyBag
    /\ linked \in {None, 7}
    /\ settings \in DefaultSettings
    /\ ticket_seq = 0
    /\ pc = "idle"
    /\ tasks = <<>>
    /\ semaphore = 0
    /\ loc = NoLocals
    /\ calls = <<>>
    /\ sent = <<>>
    /\ downloads = 0
    /\ handlers = <<>>

\* ------------------------------------------------------------------------
\* Collaborators whose code is outside src/
\* ------------------------------------------------------------------------
\* linking.get_linked_bitrix_id: lookup(user_identity) -> remote_identity?
GetLinkedBitrixId == linked

\* utils.make_ticket_id: a ticket id no earlier session of the process had
MakeTicketId == ticket_seq + 1

\* _is_allowed
IsAllowed == settings.allowed

\* ------------------------------------------------------------------------
\* Handlers: each maps the bag it meets to the bag it leaves, the messages
\* it sends and the conversation state it returns
\* ------------------------------------------------------------------------
\* hydrate_link (group -1, every message update)
HydrateLink(ud) ==
    IF GetLinkedBitrixId # None
    THEN Put(ud, "bitrix_user_id", GetLinkedBitrixId)
    ELSE ud

\* cmd_start
CmdStart ==
    IF ~IsAllowed THEN <<Msg("denied")>> ELSE <<Msg("menu")>>

\* maybe_show_menu (group 99, every non-command text message)
MaybeShowMenu(ud, isButton) ==
    IF Get(ud, "_menu_shown", FALSE)
    THEN [user_data |-> ud, sent |-> <<>>]
    ELSE [user_data |-> Put(ud, "_menu_shown", TRUE),
          sent |-> IF isButton THEN <<>> ELSE CmdStart]

\* cmd_cancel
CmdCancel(ud) ==
    [user_data |-> EmptyBag, sent |-> <<Msg("cancelled")>>, ret |-> END]

\* cb_cancel_task
CbCancelTask(ud) ==
    [user_data |-> EmptyBag, sent |-> <<Msg("cancelled")>>, ret |-> END]

NewSession == [k \in {"ticket_id", "files"} |->
                 IF k = "ticket_id" THEN MakeTicketId ELSE <<>>]

\* a cmd_task that starts the session without context.user_data.clear()
CmdTaskKeepsDraft(ud) ==
    IF GetLinkedBitrixId = None
    THEN [user_data |-> ud, sent |-> <<Msg("link_required")>>, ret |-> END,
          ticket |-> FALSE]
    ELSE IF ~IsAllowed
    THEN [user_data |-> ud, sent |-> <<Msg("denied")>>, ret |-> END,
          ticket |-> FALSE]
    ELSE [user_data |-> Put(Put(ud, "ticket_id", MakeTicketId), "files", <<>>),
          sent |-> <<Msg("ask_title")>>, ret |-> WAIT_TITLE, ticket |-> TRUE]

\* cmd_task
CmdTask(ud) ==
    IF GetLinkedBitrixId = None
    THEN [user_data |-> ud, sent |-> <<Msg("link_required")>>, ret |-> END,
          ticket |-> FALSE]
    ELSE IF ~IsAllowed
    THEN [user_data |-> ud, sent |-> <<Msg("denied")>>, ret |-> END,
          ticket |-> FALSE]
    ELSE [user_data |-> NewSession, sent |-> <<Msg("ask_title")>>,
          ret |-> WAIT_TITLE, ticket |-> TRUE]

\* a cb_start_task that clears the bag and stores no ticket id
CbStartTaskNoTicket(ud) ==
    [user_data |-> [k \in {"files"} |-> <<>>], sent |-> <<Msg("ask_title")>>,
     ret |-> WAIT_TITLE, ticket |-> TRUE]

\* cb_start_task
CbStartTask(ud) ==
    [user_data |-> NewSession, sent |-> <<Msg("ask_title")>>,
     ret |-> WAIT_TITLE, ticket |-> TRUE]

\* on_title without its test for an empty title
OnTitleUnchecked(ud, text) ==
    [user_data |-> Put(ud, "title", Strip(text)),
     sent |-> <<Msg("ask_description")>>, ret |-> WAIT_DESCRIPTION]

\* on_title
OnTitle(ud, text) ==
    LET title == Strip(text) IN
    IF title = <<>>
    THEN [user_data |-> ud, sent |-> <<Msg("title_empty")>>, ret |-> WAIT_TITLE]
    ELSE [user_data |-> Put(ud, "title", title),
          sent |-> <<Msg("ask_description")>>, ret |-> WAIT_DESCRIPTION]

\* on_description without its test for an empty description
OnDescriptionUnchecked(ud, text) ==
    [user_data |-> Put(ud, "description", Strip(text)),
     sent |-> <<Msg("ask_attachments")>>, ret |-> WAIT_ATTACHMENTS]

\* on_description
OnDescription(ud, text) ==
    LET desc == Strip(text) IN
    IF desc = <<>>
    THEN [user_data |-> ud, sent |-> <<Msg("description_empty")>>,
          ret |-> WAIT_DESCRIPTION]
    ELSE [user_data |-> Put(ud, "description", desc),
          sent |-> <<Msg("ask_attachments")>>, ret |-> WAIT_ATTACHMENTS]

\* _attachment_too_large letting one byte over the ceiling through
AttachmentTooLargeOffByOne(size_bytes) ==
    IF size_bytes = None THEN FALSE
    ELSE size_bytes > MAX_ATTACHMENT_BYTES + 1

\* _attachment_too_large (None and 0 are both "not size_bytes")
AttachmentTooLarge(size_bytes) ==
    IF size_bytes = None THEN FALSE ELSE size_bytes > MAX_ATTACHMENT_BYTES

\* the limit test off by one
AtAttachmentLimitOffByOne(saved) == Len(saved) > MAX_ATTACHMENTS_PER_TASK

\* the test "len(saved) >= MAX_ATTACHMENTS_PER_TASK"
AtAttachmentLimit(saved) == Len(saved) >= MAX_ATTACHMENTS_PER_TASK

\* SavedFile(original_name, local_path); make_local_path puts the file under
\* the directory of the ticket
SavedFile(name, ticket_id) ==
    [original_name |-> name, local_path |-> <<ticket_id, name>>]

\* an on_attachment that stores the new file in the place of the list
OnAttachmentReplaces(ud, att) ==
    LET ticket_id == Get(ud, "ticket_id", None)
        saved == Get(ud, "files", <<>>)
    IN
    IF ticket_id = None
    THEN [user_data |-> ud, sent |-> <<Msg("session_missing")>>, ret |-> END,
          downloads |-> 0]
    ELSE IF AtAttachmentLimit(saved)
    THEN [user_data |-> ud, sent |-> <<Msg("limit")>>, ret |-> WAIT_ATTACHMENTS,
          downloads |-> 0]
    ELSE IF AttachmentTooLarge(att.file_size)
    THEN [user_data |-> ud, sent |-> <<Msg("too_large")>>,
          ret |-> WAIT_ATTACHMENTS, downloads |-> 0]
    ELSE [user_data |-> Put(ud, "files", <<SavedFile(att.name, ticket_id)>>),
          sent |-> <<[kind |-> "saved", what |-> att.kind, name |-> att.name]>>,
          ret |-> WAIT_ATTACHMENTS, downloads |-> 1]

\* on_attachment; a message that passes filters.PHOTO | filters.Document.ALL
\* holds a photo or a document, so the last branch of the handler is not taken
OnAttachment(ud, att) ==
    LET ticket_id == Get(ud, "ticket_id", None)
        saved == Get(ud, "files", <<>>)
    IN
    IF ticket_id = None
    THEN [user_data |-> ud, sent |-> <<Msg("session_missing")>>, ret |-> END,
          downloads |-> 0]
    ELSE IF AtAttachmentLimit(saved)
    THEN [user_data |-> ud, sent |-> <<Msg("limit")>>, ret |-> WAIT_ATTACHMENTS,
          downloads |-> 0]
    ELSE IF AttachmentTooLarge(att.file_size)
    THEN [user_data |-> ud, sent |-> <<Msg("too_large")>>,
          ret |-> WAIT_ATTACHMENTS, downloads |-> 0]
    ELSE [user_data |->
              Put(ud, "files", Append(saved, SavedFile(att.name, ticket_id))),
          sent |-> <<[kind |-> "saved", what |-> att.kind, name |-> att.name]>>,
          ret |-> WAIT_ATTACHMENTS, downloads |-> 1]

\* cb_attachments_done
CbAttachmentsDone(ud) ==
    [user_data |-> ud,
     sent |-> <<[kind |-> "review", title |-> Get(ud, "title", <<>>),
                 n |-> Len(Get(ud, "files", <<>>))]>>,
     ret |-> CONFIRM]

\* ------------------------------------------------------------------------
\* The /link conversation
\* ------------------------------------------------------------------------
IsDigit(c) == c = "7"

DigitValue(c) == IF c = "7" THEN 7 ELSE 0

RECURSIVE ToInt(_)
ToInt(t) ==
    IF t = <<>> THEN 0
    ELSE 10 * ToInt(SubSeq(t, 1, Len(t) - 1)) + DigitValue(t[Len(t)])

\* parse_bitrix_user_id; the two "user/<digits>" patterns need letters, which
\* the texts of the model do not hold
ParseBitrixUserId(text) ==
    LET t == Strip(text) IN
    IF t # <<>> /\ \A i \in 1..Len(t) : IsDigit(t[i]) THEN ToInt(t) ELSE None

\* link_start
LinkStart == [sent |-> <<Msg("ask_link")>>, ret |-> LINK_WAIT]

\* link_receive
LinkReceive(text) ==
    LET bitrix_user_id == ParseBitrixUserId(text) IN
    IF ~IsAllowed
    THEN [sent |-> <<Msg("denied")>>, ret |-> END, linked |-> linked]
    ELSE IF bitrix_user_id = None
    THEN [sent |-> <<Msg("link_not_understood")>>, ret |-> LINK_WAIT,
          linked |-> linked]
    ELSE [sent |-> <<Msg("link_done")>>, ret |-> END, linked |-> bitrix_user_id]

\* ------------------------------------------------------------------------
\* Dispatch of one update: the handler groups of main() in order (-1, 0, 1,
\* 99); in group 1 the /task conversation is asked first, then the /link
\* conversation; with allow_reentry the entry points of the /task
\* conversation are matched in every state
\* ------------------------------------------------------------------------
\* What an update handled in one piece leaves behind.
Handled(newTask, newLink, ud, msgs, dl, hs) ==
    /\ task_state' = newTask
    /\ link_state' = newLink
    /\ user_data' = ud
    /\ sent' = msgs
    /\ downloads' = dl
    /\ handlers' = hs
    /\ pc' = "idle"
    /\ tasks' = <<>>
    /\ semaphore' = 0
    /\ loc' = NoLocals
    /\ calls' = <<>>
    /\ UNCHANGED settings

\* an update no handler of any group takes (a callback query never passes
\* the MessageHandlers hydrate_link and maybe_show_menu): nothing runs
Unhandled == Handled(task_state, link_state, user_data, <<>>, 0, <<>>)

\* the command /task
TaskCommand ==
    /\ pc = "idle"
    /\ LET r == CmdTask(HydrateLink(user_data)) IN
       /\ r.ticket => ticket_seq < MaxTickets
       /\ ticket_seq' = IF r.ticket THEN ticket_seq + 1 ELSE ticket_seq
       /\ Handled(r.ret, link_state, r.user_data, r.sent, 0,
                  <<"hydrate_link", "cmd_task">>)
    /\ UNCHANGED linked

\* the text of the button BTN_CREATE
CreateButtonText ==
    /\ pc = "idle"
    /\ LET r == CmdTask(HydrateLink(user_data))
           m == MaybeShowMenu(r.user_data, TRUE)
       IN
       /\ r.ticket => ticket_seq < MaxTickets
       /\ ticket_seq' = IF r.ticket THEN ticket_seq + 1 ELSE ticket_seq
       /\ Handled(r.ret, link_state, m.user_data, r.sent \o m.sent, 0,
                  <<"hydrate_link", "cmd_task", "maybe_show_menu">>)
    /\ UNCHANGED linked

\* the callback start_task
StartTaskButton ==
    /\ pc = "idle"
    /\ ticket_seq < MaxTickets
    /\ LET r == CbStartTask(user_data) IN
       /\ ticket_seq' = ticket_seq + 1
       /\ Handled(r.ret, link_state, r.user_data, r.sent, 0, <<"cb_start_task">>)
    /\ UNCHANGED linked

\* the text message text, no command and no button label
TextEvent(text) ==
    /\ pc = "idle"
    /\   LET ud == HydrateLink(user_data) IN
         IF task_state = WAIT_TITLE
         THEN LET r == OnTitle(ud, text)
                  m == MaybeShowMenu(r.user_data, FALSE)
              IN /\ Handled(r.ret, link_state, m.user_data, r.sent \o m.sent, 0,
                            <<"hydrate_link", "on_title", "maybe_show_menu">>)
                 /\ UNCHANGED linked
         ELSE IF task_state = WAIT_DESCRIPTION
         THEN LET r == OnDescription(ud, text)
                  m == MaybeShowMenu(r.user_data, FALSE)
              IN /\ Handled(r.ret, link_state, m.user_data, r.sent \o m.sent, 0,
                            <<"hydrate_link", "on_description", "maybe_show_menu">>)
                 /\ UNCHANGED linked
         ELSE IF link_state = LINK_WAIT
         THEN LET r == LinkReceive(text)
                  m == MaybeShowMenu(ud, FALSE)
              IN /\ Handled(task_state, r.ret, m.user_data, r.sent \o m.sent, 0,
                            <<"hydrate_link", "link_receive", "maybe_show_menu">>)
                 /\ linked' = r.linked
         ELSE LET m == MaybeShowMenu(ud, FALSE)
              IN /\ Handled(task_state, link_state, m.user_data, m.sent, 0,
                            <<"hydrate_link", "maybe_show_menu">>)
                 /\ UNCHANGED linked
    /\ UNCHANGED ticket_seq

\* a text message that is no command and no button label
TextMessage == \E text \in Texts : TextEvent(text)

\* sizes a photo or a document reports
FileSizes == {None, 1, MAX_ATTACHMENT_BYTES, MAX_ATTACHMENT_BYTES + 1}

\* the attachments the user may send next: a photo or a document; the k-th
\* file of a session carries the name k (Telegram's file_unique_id)
Attachments(ud) ==
    [kind : {"photo", "document"},
     file_size : FileSizes,
     name : {Len(Get(ud, "files", <<>>)) + 1}]

\* the message with the photo or document att
AttachmentEvent(att) ==
    /\ pc = "idle"
    /\ LET ud == HydrateLink(user_data) IN
       IF task_state = WAIT_ATTACHMENTS
       THEN LET r == OnAttachment(ud, att)
            IN Handled(r.ret, link_state, r.user_data, r.sent, r.downloads,
                       <<"hydrate_link", "on_attachment">>)
       ELSE Handled(task_state, link_state, ud, <<>>, 0, <<"hydrate_link">>)
    /\ UNCHANGED <<linked, ticket_seq>>

\* a message with a photo or a document
AttachmentMessage == \E att \in Attachments(user_data) : AttachmentEvent(att)

\* the callback attachments_done: the button stays in the chat, so it can be
\* pressed in any state; only WAIT_ATTACHMENTS has a handler for it
AttachmentsDoneButton ==
    /\ pc = "idle"
    /\ IF task_state = WAIT_ATTACHMENTS
       THEN LET r == CbAttachmentsDone(user_data)
            IN Handled(r.ret, link_state, r.user_data, r.sent, 0,
                       <<"cb_attachments_done">>)
       ELSE Unhandled
    /\ UNCHANGED <<linked, ticket_seq>>

\* the callback cancel_task: pressed in any state; only WAIT_ATTACHMENTS and
\* CONFIRM have a handler for it
CancelButton ==
    /\ pc = "idle"
    /\ IF task_state \in {WAIT_ATTACHMENTS, CONFIRM}
       THEN LET r == CbCancelTask(user_data)
            IN Handled(r.ret, link_state, r.user_data, r.sent, 0,
                       <<"cb_cancel_task">>)
       ELSE Unhandled
    /\ UNCHANGED <<linked, ticket_seq>>

\* the command /cancel: cmd_cancel of group 0, then the fallback of the
\* conversation that takes the update in group 1
CancelCommand ==
    /\ pc = "idle"
    /\ LET g0 == CmdCancel(HydrateLink(user_data)) IN
       IF task_state # END
       THEN LET r == CmdCancel(g0.user_data)
            IN Handled(r.ret, link_state, r.user_data, g0.sent \o r.sent, 0,
                       <<"hydrate_link", "cmd_cancel", "cmd_cancel">>)
       ELSE IF link_state # END
       THEN LET r == CmdCancel(g0.user_data)
            IN Handled(task_state, r.ret, r.user_data, g0.sent \o r.sent, 0,
                       <<"hydrate_link", "cmd_cancel", "cmd_cancel">>)
       ELSE Handled(task_state, link_state, g0.user_data, g0.sent, 0,
                    <<"hydrate_link", "cmd_cancel">>)
    /\ UNCHANGED <<linked, ticket_seq>>

\* the command /link
LinkCommand ==
    /\ pc = "idle"
    /\ LET ud == HydrateLink(user_data) IN
       IF link_state = END
       THEN Handled(task_state, LinkStart.ret, ud, LinkStart.sent, 0,
                    <<"hydrate_link", "link_start">>)
       ELSE Handled(task_state, link_state, ud, <<>>, 0, <<"hydrate_link">>)
    /\ UNCHANGED <<linked, ticket_seq>>

\* ------------------------------------------------------------------------
\* Failures of the collaborators and the classifier of upload failures
\* ------------------------------------------------------------------------
\* An exception: its class, and for a BitrixError its message and details as
\* sequences of text fragments; cause tells why the collaborator failed.
Exc(cls, message, details, cause) ==
    [cls |-> cls, message |-> message, details |-> details, cause |-> cause]

\* str.lower() on a fragment
Lower(w) ==
    CASE w = "INTERNAL" -> "internal"
      [] w = "ACCESS_DENIED" -> "access_denied"
      [] w = "Access denied" -> "access denied"
      [] w = "ERROR_CORE" -> "error_core"
      [] w = "CREATED_BY" -> "created_by"
      [] OTHER -> w

\* the markers of _is_retryable_upload_error
Markers ==
    {"timeout", "readtimeout", "connecttimeout", "remoteprotocolerror",
     "all disk upload strategies failed", "temporar", "service unavailable",
     "gateway timeout", "too many request", "internal", "network",
     "502", "503", "504"}

\* a classifier without its test for httpx.TransportError
IsRetryableBitrixOnly(exc) ==
    IF exc.cls = "BitrixError"
    THEN LET details == exc.message \o <<" ">> \o exc.details
         IN \E i \in 1..Len(details) : Lower(details[i]) \in Markers
    ELSE FALSE

\* _is_retryable_upload_error
IsRetryableUploadError(exc) ==
    IF exc.cls = "TransportError" THEN TRUE
    ELSE IF exc.cls = "BitrixError"
    THEN LET details == exc.message \o <<" ">> \o exc.details
         IN \E i \in 1..Len(details) : Lower(details[i]) \in Markers
    ELSE FALSE

\* the status codes and the raw bodies of the replies of the model
StatusCodes == {"200", "502"}

Payloads == {"<html>", "timeout"}

\* the BitrixError upload_to_folder raises for a reply that is no JSON; the
\* message carries the status code, the details the raw text
NonJsonError(status, text) ==
    Exc("BitrixError",
        <<"Bitrix returned non-JSON response (HTTP ", status, ")">>,
        <<text>>, "shape")

\* the BitrixError upload_to_folder raises for a reply without a file id;
\* the details are the payload as text
NoFileIdError(text) ==
    Exc("BitrixError", <<"Cannot parse disk file id from Bitrix response">>,
        <<text>>, "shape")

\* the failures of upload_to_folder to read the reply
ShapeExceptions ==
    {NonJsonError(status, text) : status \in StatusCodes, text \in Payloads}
    \cup {NoFileIdError(text) : text \in Payloads}

\* what an upload_to_folder call may raise: a transport failure, a structured
\* error of the portal (transient or not), a local error
UploadExceptions ==
    {Exc("TransportError", <<>>, <<>>, "network"),
     Exc("BitrixError", <<"INTERNAL">>, <<"service unavailable">>, "portal"),
     Exc("BitrixError", <<"ACCESS_DENIED">>, <<"Access denied">>, "portal"),
     Exc("OSError", <<>>, <<>>, "local")}
    \cup ShapeExceptions

\* the id the storage collaborator gives the upload of the i-th file
RemoteFileId(i) == 100 + i

UploadOutcomes(i) ==
    {[ok |-> TRUE, file_id |-> RemoteFileId(i)]}
    \cup {[ok |-> FALSE, exc |-> e] : e \in UploadExceptions}

\* what a create_task call may raise; the portal can reject the creator only
\* when the call names one
CreateExceptions(call) ==
    {Exc("BitrixError", <<"ACCESS_DENIED">>, <<"Access denied">>, "portal"),
     Exc("BitrixError", <<"Cannot parse task id from Bitrix response">>, <<>>,
         "shape"),
     Exc("TransportError", <<>>, <<>>, "network")}
    \cup (IF call.created_by # None
          THEN {Exc("BitrixError", <<"ERROR_CORE">>, <<"CREATED_BY">>, "creator")}
          ELSE {})

\* whether the portal has created the task when the call raises: never when
\* it answers with an error; it may have when the reply was lost on the way
\* or when create_task could not find the task id in its result
MayHaveCreated(exc) ==
    IF exc.cause \in {"shape", "network"} THEN BOOLEAN ELSE {FALSE}

\* the outcomes of a create_task call; created tells whether the portal now
\* holds a task made by the call
CreateOutcomes(call) ==
    {[ok |-> TRUE, task_id |-> t, created |-> TRUE] : t \in 1..MaxTaskId}
    \cup {out \in [ok : {FALSE}, exc : CreateExceptions(call),
                    created : BOOLEAN] :
             out.created \in MayHaveCreated(out.exc)}

\* ------------------------------------------------------------------------
\* _upload_files_to_bitrix_disk
\* ------------------------------------------------------------------------
Max(a, b) == IF a >= b THEN a ELSE b

Min(a, b) == IF a <= b THEN a ELSE b

\* a semaphore sized by the files alone
SlotsPerFile(upload_parallelism, n) == Max(1, n)

\* a semaphore without the floor of one slot
SlotsUnfloored(upload_parallelism, n) == Min(upload_parallelism, n)

\* the initial value of the semaphore
Slots(upload_parallelism, n) == Max(1, Min(upload_parallelism, n))

\* _saved_file_label (the names of the model are never blank)
SavedFileLabel(saved_file) == saved_file.original_name

\* the coroutines gather() starts, one per file, none past "async with" yet
NewTasks(files) ==
    [i \in 1..Len(files) |-> [st |-> "pending", attempt |-> 0, file_id |-> None]]

InFlight == {i \in 1..Len(tasks) : tasks[i].st = "running"}

Pending == {i \in 1..Len(tasks) : tasks[i].st = "pending"}

\* the waiters of an asyncio.Semaphore are served first come first served,
\* and the coroutines reach "async with semaphore" in the order of the files
NextWaiter == CHOOSE i \in Pending : \A j \in Pending : i <= j

\* a retry decision that does not ask the classifier
RetryableUnclassified(attempt, max_attempts, exc) == attempt < max_attempts

\* a retry decision that stops one attempt early
RetryableOneShort(attempt, max_attempts, exc) ==
    attempt + 1 < max_attempts /\ IsRetryableUploadError(exc)

\* the retry decision after a failed attempt
Retryable(attempt, max_attempts, exc) ==
    attempt < max_attempts /\ IsRetryableUploadError(exc)

\* _upload_one enters "async with semaphore" and starts its first attempt;
\* with max_attempts < 1 the loop body never runs and the file fails at once
UploadAcquire ==
    /\ pc = "uploading"
    /\ Pending # {}
    /\ semaphore > 0
    /\ LET i == NextWaiter IN
       IF settings.bitrix_upload_max_attempts >= 1
       THEN /\ tasks' = [tasks EXCEPT ![i].st = "running", ![i].attempt = 1]
            /\ semaphore' = semaphore - 1
       ELSE /\ tasks' = [tasks EXCEPT ![i].st = "failed"]
            /\ semaphore' = semaphore
    /\ UNCHANGED <<task_state, link_state, user_data, linked, settings,
                   ticket_seq, pc, loc, calls, sent, downloads, handlers>>

\* the upload_to_folder call of the i-th _upload_one ends with out
UploadReturnsWith(i, out) ==
    /\ pc = "uploading"
    /\ i \in InFlight
    /\ IF out.ok
       THEN /\ tasks' = [tasks EXCEPT ![i].st = "uploaded",
                                      ![i].file_id = out.file_id]
            /\ semaphore' = semaphore + 1
       ELSE IF Retryable(tasks[i].attempt,
                         settings.bitrix_upload_max_attempts, out.exc)
       THEN /\ tasks' = [tasks EXCEPT ![i].attempt = @ + 1]
            /\ semaphore' = semaphore
       ELSE /\ tasks' = [tasks EXCEPT ![i].st = "failed"]
            /\ semaphore' = semaphore + 1
    /\ UNCHANGED <<task_state, link_state, user_data, linked, settings,
                   ticket_seq, pc, loc, calls, sent, downloads, handlers>>

\* an upload_to_folder call of _upload_one returns or raises
UploadReturns ==
    \E i \in 1..Len(tasks) : \E out \in UploadOutcomes(i) :
       UploadReturnsWith(i, out)

\* an upload_to_folder call of _upload_one raises a failure the classifier
\* calls retryable
UploadFailsRetryably ==
    \E i \in 1..Len(tasks) :
       \E out \in {o \in UploadOutcomes(i) :
                      ~o.ok /\ IsRetryableUploadError(o.exc)} :
          UploadReturnsWith(i, out)

\* the results of gather(), in the order of the files
RECURSIVE UploadedIds(_)
UploadedIds(ts) ==
    IF ts = <<>> THEN <<>>
    ELSE (IF Head(ts).st = "uploaded" THEN <<Head(ts).file_id>> ELSE <<>>)
         \o UploadedIds(Tail(ts))

\* an aggregation that names every file as failed
FailedFilesAll(ts, files) == [i \in 1..Len(files) |-> SavedFileLabel(files[i])]

RECURSIVE FailedFilesFrom(_, _)
FailedFilesFrom(ts, files) ==
    IF ts = <<>> THEN <<>>
    ELSE (IF Head(ts).st = "failed" THEN <<SavedFileLabel(Head(files))>>
          ELSE <<>>)
         \o FailedFilesFrom(Tail(ts), Tail(files))

\* a gather() that returns with the first failed file
AllDoneOrOneFailed ==
    \/ \A i \in 1..Len(tasks) : tasks[i].st \in {"uploaded", "failed"}
    \/ \E i \in 1..Len(tasks) : tasks[i].st = "failed"

\* gather() returns when every _upload_one has returned
AllDone == \A i \in 1..Len(tasks) : tasks[i].st \in {"uploaded", "failed"}

\* ------------------------------------------------------------------------
\* cb_confirm_create
\* ------------------------------------------------------------------------
\* build_initiator_block
InitiatorBlock == <<"Telegram: @user">>

\* build_attachments_block
AttachmentsBlock(files) == <<>>

\* build_task_description
BuildTaskDescription(user_desc, initiator_block, attachments_block) ==
    LET parts == Strip(user_desc) \o <<"\n", "\n">> \o Strip(initiator_block)
        block == Strip(attachments_block)
    IN Strip(IF block # <<>> THEN parts \o <<"\n", "\n">> \o block ELSE parts)

\* the test for missing data looking at the title only
MissingTitleOnly(title, user_desc) == title = <<>>

\* the test "not title or not user_desc"
MissingData(title, user_desc) == title = <<>> \/ user_desc = <<>>

\* the test for a wholly failed upload with its second operand negated
NothingUploadedWrong(uploaded_ids, failed_files) ==
    failed_files # <<>> /\ uploaded_ids # <<>>

\* the test "failed_files and not uploaded_ids"
NothingUploaded(uploaded_ids, failed_files) ==
    failed_files # <<>> /\ uploaded_ids = <<>>

\* the arguments of a create_task call
CreateTaskCall(l, created_by) ==
    [title |-> l.title,
     description |-> l.full_desc,
     responsible_id |-> settings.bitrix_default_responsible_id,
     group_id |-> settings.bitrix_group_id,
     priority |-> settings.bitrix_priority,
     created_by |-> created_by,
     webdav_file_ids |-> l.uploaded_ids]

\* a first call that leaves the uploaded files out
FirstCallWithoutFiles(l) ==
    CreateTaskCall([l EXCEPT !.uploaded_ids = <<>>], l.created_by)

\* the first call names the linked id as creator
FirstCall(l) == CreateTaskCall(l, l.created_by)

\* a fallback call that still names the creator
FallbackCallWithCreator(l) == CreateTaskCall(l, l.created_by)

\* the call of the "except BitrixError" branch
FallbackCall(l) == CreateTaskCall(l, None)

\* an "except Exception" in the place of "except BitrixError"
CaughtAsAnyException(exc) == TRUE

\* which failures of the first call "except BitrixError" catches
CaughtAsBitrixError(exc) == exc.cls = "BitrixError"

\* a decimal digit as a character
Digit(d) ==
    CASE d = 0 -> "0" [] d = 1 -> "1" [] d = 2 -> "2" [] d = 3 -> "3"
      [] d = 4 -> "4" [] d = 5 -> "5" [] d = 6 -> "6" [] d = 7 -> "7"
      [] d = 8 -> "8" [] d = 9 -> "9"

\* str() of a natural number
RECURSIVE Str(_)
Str(n) == IF n < 10 THEN <<Digit(n)>> ELSE Str(n \div 10) \o <<Digit(n % 10)>>

\* BitrixClient.create_task: the form fields of the tasks.task.add request;
\* webdav_file_ids is a parameter the body never reads
CreateTaskFields(call) ==
    <<<<"fields[TITLE]", call.title>>,
      <<"fields[DESCRIPTION]", call.description>>,
      <<"fields[RESPONSIBLE_ID]", Str(call.responsible_id)>>>>
    \o (IF call.group_id # None
        THEN <<<<"fields[GROUP_ID]", Str(call.group_id)>>>> ELSE <<>>)
    \o (IF call.priority # None
        THEN <<<<"fields[PRIORITY]", Str(call.priority)>>>> ELSE <<>>)
    \o (IF call.created_by # None
        THEN <<<<"fields[CREATED_BY]", Str(call.created_by)>>>> ELSE <<>>)

\* a handler that tests no link
NotLinkedNever(created_by) == FALSE

\* the test "created_by is None"
NotLinked(created_by) == created_by = None

\* a failure branch that sends nothing
CreateFailedSilently == <<>>

\* the message of the two branches for a failed create_task
CreateFailedMessages == <<Msg("create_failed")>>

\* the bag each way out of the handler leaves (context.user_data.clear())
BagAfterMissingData(ud) == EmptyBag

BagAfterNotLinked(ud) == EmptyBag

BagAfterNothingUploaded(ud) == EmptyBag

\* a failure branch without its context.user_data.clear()
BagLeftAfterCreateFailed(ud) == ud

BagAfterCreateFailed(ud) == EmptyBag

BagAfterCreated(ud) == EmptyBag

\* the task id the final message reports
ReportedTaskId(task_id) == task_id

\* the message for a created task
CreatedMessage(task_id, l) ==
    [kind |-> "created", task_id |-> ReportedTaskId(task_id),
     attached |-> Len(l.uploaded_ids), failed |-> l.failed_files]

\* the handler suspended: every variable it does not own stays
Suspended == UNCHANGED <<link_state, linked, settings, ticket_seq, downloads,
                         handlers>>

\* the handler returns ConversationHandler.END
Returns(ud, msgs) ==
    /\ task_state' = END
    /\ user_data' = ud
    /\ sent' = sent \o msgs
    /\ pc' = "idle"

\* the callback confirm_create, up to the first call to a collaborator
ConfirmButton ==
    /\ pc = "idle"
    /\ task_state = CONFIRM
    /\ Len(Get(user_data, "files", <<>>)) <= MaxConfirmFiles
    /\ LET title == Strip(Get(user_data, "title", <<>>))
           user_desc == Strip(Get(user_data, "description", <<>>))
           files == Get(user_data, "files", <<>>)
           missing == [NoLocals EXCEPT !.files = files, !.title = title,
                                       !.user_desc = user_desc]
           l == [missing EXCEPT
                   !.full_desc = BuildTaskDescription(user_desc, InitiatorBlock,
                                                      AttachmentsBlock(files)),
                   !.lookups = 1,
                   !.created_by = GetLinkedBitrixId]
           created_by == l.created_by
       IN
       /\ handlers' = <<"cb_confirm_create">>
       /\ downloads' = 0
       /\ tasks' = IF ~MissingData(title, user_desc) /\ ~NotLinked(created_by)
                   THEN NewTasks(files) ELSE <<>>
       /\ semaphore' = IF tasks' # <<>>
                       THEN Slots(settings.bitrix_upload_parallelism, Len(files))
                       ELSE 0
       /\ IF MissingData(title, user_desc)
          THEN /\ loc' = missing
               /\ calls' = <<>>
               /\ task_state' = END
               /\ user_data' = BagAfterMissingData(user_data)
               /\ sent' = <<Msg("missing_data")>>
               /\ pc' = "idle"
          ELSE IF NotLinked(created_by)
          THEN /\ loc' = l
               /\ calls' = <<>>
               /\ task_state' = END
               /\ user_data' = BagAfterNotLinked(user_data)
               /\ sent' = <<Msg("not_linked")>>
               /\ pc' = "idle"
          ELSE IF files # <<>>
          THEN /\ loc' = l
               /\ calls' = <<>>
               /\ sent' = <<[kind |-> "uploading", n |-> Len(files)]>>
               /\ pc' = "uploading"
               /\ UNCHANGED <<task_state, user_data>>
          ELSE /\ loc' = l
               /\ calls' = <<FirstCall(l)>>
               /\ sent' = <<Msg("creating")>>
               /\ pc' = "create_task"
               /\ UNCHANGED <<task_state, user_data>>
    /\ UNCHANGED <<link_state, linked, settings, ticket_seq>>

\* the callback confirm_create pressed in a state other than CONFIRM, which
\* alone has a handler for it
ConfirmButtonElsewhere ==
    /\ pc = "idle"
    /\ task_state # CONFIRM
    /\ Unhandled
    /\ UNCHANGED <<linked, ticket_seq>>

\* gather() has returned: the results are collected and either the handler
\* gives up or the first create_task call is made
UploadsGathered ==
    /\ pc = "uploading"
    /\ AllDone
    /\ LET l == [loc EXCEPT !.uploaded_ids = UploadedIds(tasks),
                            !.failed_files = FailedFilesFrom(tasks, loc.files)]
       IN
       /\ loc' = l
       /\ IF NothingUploaded(l.uploaded_ids, l.failed_files)
          THEN /\ Returns(BagAfterNothingUploaded(user_data),
                          <<[kind |-> "nothing_uploaded",
                             failed |-> l.failed_files]>>)
               /\ calls' = calls
          ELSE /\ sent' = sent
                     \o (IF l.failed_files # <<>>
                         THEN <<[kind |-> "partly_uploaded",
                                 failed |-> l.failed_files]>>
                         ELSE <<>>)
                     \o <<Msg("creating")>>
               /\ calls' = <<FirstCall(l)>>
               /\ pc' = "create_task"
               /\ UNCHANGED <<task_state, user_data>>
    /\ UNCHANGED <<tasks, semaphore>>
    /\ Suspended

\* the first create_task call returns or raises
CreateTaskReturns ==
    /\ pc = "create_task"
    /\ \E out \in CreateOutcomes(calls[1]) :
         /\ loc' = [loc EXCEPT !.outcomes = Append(@, out)]
         /\ IF out.ok
            THEN /\ Returns(BagAfterCreated(user_data),
                            <<CreatedMessage(out.task_id, loc)>>)
                 /\ calls' = calls
            ELSE IF CaughtAsBitrixError(out.exc)
            THEN /\ calls' = Append(calls, FallbackCall(loc))
                 /\ pc' = "create_task_fallback"
                 /\ UNCHANGED <<task_state, user_data, sent>>
            ELSE /\ Returns(BagAfterCreateFailed(user_data),
                            CreateFailedMessages)
                 /\ calls' = calls
    /\ UNCHANGED <<tasks, semaphore>>
    /\ Suspended

\* the create_task call without creator returns or raises
FallbackReturns ==
    /\ pc = "create_task_fallback"
    /\ \E out \in CreateOutcomes(calls[2]) :
         /\ loc' = [loc EXCEPT !.outcomes = Append(@, out)]
         /\ IF out.ok
            THEN Returns(BagAfterCreated(user_data),
                         <<CreatedMessage(out.task_id, loc)>>)
            ELSE Returns(BagAfterCreateFailed(user_data),
                         CreateFailedMessages)
    /\ UNCHANGED <<calls, tasks, semaphore>>
    /\ Suspended

\* ------------------------------------------------------------------------
\* The bot
\* ------------------------------------------------------------------------
Next ==
    \/ TaskCommand
    \/ CreateButtonText
    \/ StartTaskButton
    \/ TextMessage
    \/ AttachmentMessage
    \/ CancelButton
    \/ CancelCommand
    \/ AttachmentsDoneButton
    \/ LinkCommand
    \/ ConfirmButton
    \/ ConfirmButtonElsewhere
    \/ UploadAcquire
    \/ UploadReturns
    \/ UploadsGathered
    \/ CreateTaskReturns
    \/ FallbackReturns

Spec == Init /\ [][Next]_vars

\* ------------------------------------------------------------------------
\* _upload_files_to_bitrix_disk on its own: cb_confirm_create has just
\* started the upload of the n files of a session, under any settings
\* ------------------------------------------------------------------------
StagedFiles(n, ticket_id) == [i \in 1..n |-> SavedFile(i, ticket_id)]

\* the bag of a session of a linked user with n files, ready to be confirmed
SessionBag(n, title, description) ==
    [k \in {"ticket_id", "files", "title", "description", "bitrix_user_id",
            "_menu_shown"} |->
       CASE k = "ticket_id" -> 1
         [] k = "files" -> StagedFiles(n, 1)
         [] k = "title" -> title
         [] k = "description" -> description
         [] k = "bitrix_user_id" -> 7
         [] k = "_menu_shown" -> TRUE]

UploadInit ==
    \E n \in 1..MaxUploadFiles :
       /\ task_state = CONFIRM
       /\ link_state = END
       /\ user_data = SessionBag(n, <<"7">>, <<"7">>)
       /\ linked = 7
       /\ settings \in Settings
       /\ ticket_seq = 1
       /\ pc = "uploading"
       /\ tasks = NewTasks(StagedFiles(n, 1))
       /\ semaphore = Slots(settings.bitrix_upload_parallelism, n)
       /\ loc = [NoLocals EXCEPT
                   !.files = StagedFiles(n, 1),
                   !.title = <<"7">>,
                   !.user_desc = <<"7">>,
                   !.full_desc = BuildTaskDescription(<<"7">>, InitiatorBlock,
                                                      <<>>),
                   !.lookups = 1,
                   !.created_by = 7]
       /\ calls = <<>>
       /\ sent = <<[kind |-> "uploading", n |-> n]>>
       /\ downloads = 0
       /\ handlers = <<"cb_confirm_create">>

UploadNext == UploadAcquire \/ UploadReturns \/ UploadsGathered

UploadSpec == UploadInit /\ [][UploadNext]_vars

\* the same upload against a storage collaborator every call to which fails
\* with a failure the classifier calls retryable
RetryableOnlyNext == UploadAcquire \/ UploadFailsRetryably \/ UploadsGathered

RetryableOnlySpec == UploadInit /\ [][RetryableOnlyNext]_vars

\* the upload under fair scheduling: the event loop runs every coroutine
\* that can run (a waiter of the semaphore with a free slot, gather() with
\* all results in) and every call to the storage collaborator ends
UploadFairness ==
    /\ WF_vars(UploadAcquire)
    /\ WF_vars(UploadReturns)
    /\ WF_vars(UploadsGathered)

UploadFairSpec == UploadInit /\ [][UploadNext]_vars /\ UploadFairness

\* ------------------------------------------------------------------------
\* cb_confirm_create on its own: the handler reads the bag with defaults and
\* validates it again, whatever the earlier steps have stored; here the
\* callback confirm_create meets every bag over the keys of a draft
\* ------------------------------------------------------------------------
Restrict(bag, keys) == [k \in (DOMAIN bag) \cap keys |-> bag[k]]

ConfirmBags ==
    {Restrict(SessionBag(n, title, description), keys) :
        n \in 0..MaxConfirmFiles,
        title \in {<<" ">>, <<"7">>},
        description \in {<<" ">>, <<"7">>},
        keys \in {{"ticket_id", "files"} \cup extra :
                     extra \in SUBSET {"title", "description"}}}

ConfirmInit ==
    /\ task_state = CONFIRM
    /\ link_state = END
    /\ user_data \in ConfirmBags
    /\ linked \in {None, 7}
    /\ settings \in DefaultSettings
    /\ ticket_seq = 1
    /\ pc = "idle"
    /\ tasks = <<>>
    /\ semaphore = 0
    /\ loc = NoLocals
    /\ calls = <<>>
    /\ sent = <<>>
    /\ downloads = 0
    /\ handlers = <<"cb_attachments_done">>

ConfirmNext ==
    \/ ConfirmButton
    \/ UploadAcquire
    \/ UploadReturns
    \/ UploadsGathered
    \/ CreateTaskReturns
    \/ FallbackReturns

ConfirmSpec == ConfirmInit /\ [][ConfirmNext]_vars

\* ------------------------------------------------------------------------
\* Properties
\* ------------------------------------------------------------------------
Last(q) == q[Len(q)]

StagedNow == Get(user_data, "files", <<>>)

ConfirmRan == handlers = <<"cb_confirm_create">>

ConfirmReturned == ConfirmRan /\ pc = "idle"

FirstFailed == Len(loc.outcomes) >= 1 /\ ~loc.outcomes[1].ok

\* C1 as stated: while a confirm event is handled, create_task is called at
\* most once.
C1_AtMostOneCreateCall == Len(calls) <= 1

\* C1 as amended: while a confirm event is handled, create_task is called at
\* most twice, and a second call is made only after the first one raised a
\* BitrixError and names no creator.
C1_AtMostTwoCreateCalls ==
    /\ Len(calls) <= 2
    /\ Len(calls) = 2 =>
         /\ FirstFailed
         /\ loc.outcomes[1].exc.cls = "BitrixError"
         /\ calls[2].created_by = None

\* a confirm that has returned after two create_task calls
C1_Witness == ConfirmReturned /\ Len(calls) = 2 /\ Len(loc.outcomes) = 2

\* C2: a second create_task call is made only when the first one failed
\* because the collaborator rejected the creator; after any other failure of
\* the first call the submission ends as failed with that one call.
C2_FallbackOnlyForCreator ==
    /\ Len(calls) = 2 => (FirstFailed /\ loc.outcomes[1].exc.cause = "creator")
    /\ (ConfirmReturned /\ FirstFailed /\ loc.outcomes[1].exc.cause # "creator")
         => (Len(calls) = 1 /\ Last(sent) = Msg("create_failed"))

\* C3: when the first create_task call fails because of the creator alone,
\* exactly one more call is made, equal to the first but for the omitted
\* creator; the id it returns is the id reported, and no third call follows
\* its failure.
C3_CreatorFallback ==
    (FirstFailed /\ loc.outcomes[1].exc.cause = "creator") =>
       /\ Len(calls) = 2
       /\ calls[1].created_by # None
       /\ calls[2] = [calls[1] EXCEPT !.created_by = None]
       /\ Len(loc.outcomes) = 1 => pc = "create_task_fallback"
       /\ Len(loc.outcomes) = 2 =>
            /\ pc = "idle"
            /\ IF loc.outcomes[2].ok
               THEN /\ Last(sent).kind = "created"
                    /\ Last(sent).task_id = loc.outcomes[2].task_id
               ELSE Last(sent) = Msg("create_failed")

\* the fallback after a rejected creator has created the task, with a file
C3_Witness ==
    /\ ConfirmReturned
    /\ FirstFailed
    /\ loc.outcomes[1].exc.cause = "creator"
    /\ Len(loc.outcomes) = 2
    /\ loc.outcomes[2].ok
    /\ calls[2].webdav_file_ids # <<>>

\* C4: a session never holds more than MAX_ATTACHMENTS_PER_TASK staged files,
\* and an attachment that arrives when it holds that many is rejected: the
\* list stays as it is, nothing is downloaded, the state stays
\* WAIT_ATTACHMENTS.
C4_AtMostTenStagedFiles ==
    /\ [](Len(StagedNow) <= MAX_ATTACHMENTS_PER_TASK)
    /\ [][\A att \in Attachments(user_data) :
            (/\ task_state = WAIT_ATTACHMENTS
             /\ Len(StagedNow) >= MAX_ATTACHMENTS_PER_TASK
             /\ AttachmentEvent(att))
            => (/\ Get(user_data', "files", <<>>) = StagedNow
                /\ downloads' = 0
                /\ sent' = <<Msg("limit")>>
                /\ task_state' = WAIT_ATTACHMENTS)]_vars

\* an attachment was rejected for the limit
C4_Witness ==
    /\ handlers = <<"hydrate_link", "on_attachment">>
    /\ sent = <<Msg("limit")>>
    /\ Len(StagedNow) = MAX_ATTACHMENTS_PER_TASK

\* C5: a photo or document that reports more than MAX_ATTACHMENT_BYTES is not
\* staged: nothing is downloaded, the list of staged files stays as it is and
\* the state stays WAIT_ATTACHMENTS.
C5_OversizeRejected ==
    [][\A att \in Attachments(user_data) :
          (/\ task_state = WAIT_ATTACHMENTS
           /\ att.file_size > MAX_ATTACHMENT_BYTES
           /\ AttachmentEvent(att))
          => (/\ Get(user_data', "files", <<>>) = StagedNow
              /\ downloads' = 0
              /\ task_state' = WAIT_ATTACHMENTS)]_vars

\* an attachment was rejected for its size
C5_Witness ==
    /\ handlers = <<"hydrate_link", "on_attachment">>
    /\ sent = <<Msg("too_large")>>

\* C6: in CONFIRM the title and the description of the draft are not empty.
C6_ConfirmHasTitleAndDescription ==
    task_state = CONFIRM =>
       /\ Strip(Get(user_data, "title", <<>>)) # <<>>
       /\ Strip(Get(user_data, "description", <<>>)) # <<>>

\* the finish-attachments button has led to CONFIRM
C6_Witness == task_state = CONFIRM /\ handlers = <<"cb_attachments_done">>

\* C7: when cb_confirm_create has returned, whatever its way out, the bag is
\* empty and the conversation has ended.
C7_ConfirmEndsSession ==
    ConfirmReturned =>
       /\ task_state = END
       /\ user_data = EmptyBag
       /\ Last(sent).kind \in {"missing_data", "not_linked", "nothing_uploaded",
                               "created", "create_failed"}

\* a confirm has ended with the fallback call failing too
C7_Witness ==
    /\ ConfirmReturned
    /\ Len(loc.outcomes) = 2
    /\ ~loc.outcomes[2].ok
    /\ Last(sent) = Msg("create_failed")

AllUploadsFailed ==
    tasks # <<>> /\ \A i \in 1..Len(tasks) : tasks[i].st = "failed"

\* C8: when every staged file of a confirm has failed to upload, create_task
\* is not called, the message names the failed files and the session is
\* cleared.
C8_NoTaskWithoutUploads ==
    (ConfirmRan /\ AllUploadsFailed) =>
       /\ calls = <<>>
       /\ pc \in {"uploading", "idle"}
       /\ pc = "idle" =>
            /\ Last(sent) =
                 [kind |-> "nothing_uploaded",
                  failed |-> [i \in 1..Len(loc.files) |->
                                SavedFileLabel(loc.files[i])]]
            /\ user_data = EmptyBag
            /\ task_state = END

\* a confirm with two files has ended with both uploads failed
C8_Witness ==
    ConfirmReturned /\ AllUploadsFailed /\ Len(tasks) = MaxConfirmFiles

\* C9: a confirm that meets an empty or blank title or description returns
\* at once: no lookup of the linked id, no upload, no create_task call, and
\* the bag is cleared.
C9_MissingDataShortCircuit ==
    (ConfirmRan /\ (loc.title = <<>> \/ loc.user_desc = <<>>)) =>
       /\ pc = "idle"
       /\ loc.lookups = 0
       /\ tasks = <<>>
       /\ calls = <<>>
       /\ sent = <<Msg("missing_data")>>
       /\ user_data = EmptyBag
       /\ task_state = END

\* a confirm has met a draft with a title and a blank description
C9_Witness ==
    /\ ConfirmRan
    /\ loc.title # <<>>
    /\ loc.user_desc = <<>>
    /\ loc.files # <<>>
    /\ sent = <<Msg("missing_data")>>

\* C10 as stated: at most bitrix_upload_parallelism uploads are in flight.
C10_AtMostMaxParallel ==
    Cardinality(InFlight) <= settings.bitrix_upload_parallelism

\* C10 as amended: at most max(1, bitrix_upload_parallelism) uploads are in
\* flight, and a file starts its upload only when fewer than that are.
C10_AtMostSlotsInFlight ==
    /\ [](Cardinality(InFlight) <= Max(1, settings.bitrix_upload_parallelism))
    /\ [][\A i \in 1..Len(tasks) :
            (tasks[i].st = "pending" /\ tasks'[i].st # "pending")
            => Cardinality(InFlight) < Max(1, settings.bitrix_upload_parallelism)
         ]_vars

\* every slot is taken and a file waits
C10_Witness ==
    /\ pc = "uploading"
    /\ semaphore = 0
    /\ Pending # {}
    /\ Cardinality(InFlight) = Max(1, settings.bitrix_upload_parallelism)

\* ------------------------------------------------------------------------
\* Properties of the upload
\* ------------------------------------------------------------------------
max_attempts == settings.bitrix_upload_max_attempts

Files == 1..Len(tasks)

\* gather() of the last upload has returned and its results are collected
Gathered == tasks # <<>> /\ pc # "uploading"

UploadedFiles == {i \in Files : tasks[i].st = "uploaded"}

FailedFiles == {i \in Files : tasks[i].st = "failed"}

Occurrences(q, x) == Cardinality({k \in 1..Len(q) : q[k] = x})

\* C11: after a failed attempt k of a file another attempt is made exactly
\* when k < max_attempts and the classifier calls the failure retryable,
\* otherwise the file is failed at once; a successful attempt makes the file
\* uploaded; a file with an outcome is never attempted again; no file is
\* attempted more than max_attempts times.
C11_RetryRule ==
    /\ [](\A i \in Files : tasks[i].attempt <= max_attempts)
    /\ [][\A i \in Files : \A out \in UploadOutcomes(i) :
            UploadReturnsWith(i, out) =>
               IF out.ok
               THEN /\ tasks'[i].st = "uploaded"
                    /\ tasks'[i].file_id = out.file_id
                    /\ tasks'[i].attempt = tasks[i].attempt
               ELSE IF /\ tasks[i].attempt < max_attempts
                       /\ IsRetryableUploadError(out.exc)
               THEN /\ tasks'[i].st = "running"
                    /\ tasks'[i].attempt = tasks[i].attempt + 1
               ELSE /\ tasks'[i].st = "failed"
                    /\ tasks'[i].attempt = tasks[i].attempt]_vars
    /\ [][\A i \in Files :
            tasks[i].st \in {"uploaded", "failed"} => tasks'[i] = tasks[i]]_vars

\* one file failed on its first attempt of two, one was uploaded on its
\* second attempt, one failed on its second attempt
C11_Witness ==
    /\ max_attempts = 2
    /\ \E i \in FailedFiles : tasks[i].attempt = 1
    /\ \E i \in UploadedFiles : tasks[i].attempt = 2
    /\ \E i \in FailedFiles : tasks[i].attempt = 2

\* C12: when every upload attempt fails with a retryable failure, each file
\* is attempted exactly max_attempts times and the result is no uploaded id
\* and the display names of all the files as failed.
C12_AllRetryableFailures ==
    /\ \A i \in Files : tasks[i].st # "uploaded" /\ tasks[i].attempt <= max_attempts
    /\ Gathered =>
         /\ \A i \in Files : tasks[i].attempt = max_attempts
         /\ loc.uploaded_ids = <<>>
         /\ loc.failed_files =
              [i \in 1..Len(loc.files) |-> SavedFileLabel(loc.files[i])]

\* the upload of the longest file list has returned with every file failed
\* after two attempts
C12_Witness ==
    /\ Gathered
    /\ Len(tasks) = MaxUploadFiles
    /\ max_attempts = 2
    /\ \A i \in Files : tasks[i].st = "failed" /\ tasks[i].attempt = 2

\* C13: the result of the upload holds every file once, as its remote id in
\* uploaded_ids or as its display name in failed_files, and both sequences
\* follow the order of the files.
C13_PartitionInInputOrder ==
    Gathered =>
       LET up == loc.uploaded_ids
           fl == loc.failed_files
           IdIndex(x) == CHOOSE i \in Files : tasks[i].file_id = x
           NameIndex(x) ==
               CHOOSE i \in Files : SavedFileLabel(loc.files[i]) = x
       IN
       /\ Len(loc.files) = Len(tasks)
       /\ Len(up) + Len(fl) = Len(tasks)
       /\ \A i \in Files :
            LET name == SavedFileLabel(loc.files[i]) IN
            \/ /\ tasks[i].st = "uploaded"
               /\ Occurrences(up, tasks[i].file_id) = 1
               /\ Occurrences(fl, name) = 0
            \/ /\ tasks[i].st = "failed"
               /\ Occurrences(fl, name) = 1
       /\ \A a, b \in 1..Len(up) : a < b => IdIndex(up[a]) < IdIndex(up[b])
       /\ \A a, b \in 1..Len(fl) : a < b => NameIndex(fl[a]) < NameIndex(fl[b])

\* of three files the second has failed and the others are uploaded
C13_Witness ==
    /\ Gathered
    /\ loc.uploaded_ids = <<RemoteFileId(1), RemoteFileId(3)>>
    /\ loc.failed_files = <<SavedFileLabel(loc.files[2])>>

\* C14: the failure of a file changes no other file; gather() returns only
\* when every file has its outcome, each after attempts of its own; a failed
\* file is handed on as its name in failed_files and the handler goes on to
\* create_task or to the message naming the failed files.
C14_FailureContained ==
    /\ [][\A i \in Files :
            (tasks[i].st # "failed" /\ tasks'[i].st = "failed")
            => \A j \in Files \ {i} : tasks'[j] = tasks[j]]_vars
    /\ [](Gathered =>
            /\ \A i \in Files :
                 /\ tasks[i].st \in {"uploaded", "failed"}
                 /\ max_attempts >= 1 => tasks[i].attempt >= 1
            /\ \A i \in FailedFiles :
                 Occurrences(loc.failed_files, SavedFileLabel(loc.files[i])) = 1
            /\ pc \in {"create_task", "idle"}
            /\ pc = "idle" => Last(sent).kind = "nothing_uploaded")

\* the first file failed on its first attempt for good and the second file
\* was uploaded on its second attempt
C14_Witness ==
    /\ Gathered
    /\ max_attempts = 2
    /\ Len(tasks) >= 2
    /\ tasks[1].st = "failed" /\ tasks[1].attempt = 1
    /\ tasks[2].st = "uploaded" /\ tasks[2].attempt = 2

\* C15: when some files of a confirm are uploaded and some have failed, the
\* result is the ids of the uploaded files and the names of the failed ones,
\* and every create_task call is made with exactly the ids of the uploaded
\* files.
C15_PartialUploadProceeds ==
    (ConfirmRan /\ Gathered /\ UploadedFiles # {} /\ FailedFiles # {}) =>
       /\ {loc.uploaded_ids[k] : k \in 1..Len(loc.uploaded_ids)}
            = {tasks[i].file_id : i \in UploadedFiles}
       /\ Len(loc.uploaded_ids) = Cardinality(UploadedFiles)
       /\ {loc.failed_files[k] : k \in 1..Len(loc.failed_files)}
            = {SavedFileLabel(loc.files[i]) : i \in FailedFiles}
       /\ Len(loc.failed_files) = Cardinality(FailedFiles)
       /\ Len(calls) >= 1
       /\ \A k \in 1..Len(calls) : calls[k].webdav_file_ids = loc.uploaded_ids
       /\ sent[2] = [kind |-> "partly_uploaded", failed |-> loc.failed_files]

\* the task was created after the first file was uploaded and the second
\* had failed
C15_Witness ==
    /\ ConfirmReturned
    /\ Len(tasks) = 2
    /\ tasks[1].st = "uploaded"
    /\ tasks[2].st = "failed"
    /\ Last(sent).kind = "created"
    /\ Last(sent).failed = <<SavedFileLabel(loc.files[2])>>

\* C16: the request create_task sends to the ticketing collaborator carries
\* the ids of the uploaded files the call was given (so it differs from the
\* request of the same call without files), and the id of the created task
\* is reported to the user.
C16_RequestCarriesFileIds ==
    /\ \A k \in 1..Len(calls) :
         calls[k].webdav_file_ids # <<>> =>
            CreateTaskFields(calls[k])
              # CreateTaskFields([calls[k] EXCEPT !.webdav_file_ids = <<>>])
    /\ (ConfirmReturned /\ loc.outcomes # <<>> /\ Last(loc.outcomes).ok) =>
         /\ Last(sent).kind = "created"
         /\ Last(sent).task_id = Last(loc.outcomes).task_id

\* ------------------------------------------------------------------------
\* Properties of the conversation
\* ------------------------------------------------------------------------
SessionStates == {WAIT_TITLE, WAIT_DESCRIPTION, WAIT_ATTACHMENTS, CONFIRM}

DraftKeys == {"ticket_id", "files", "title", "description"}

Draft(ud) == Restrict(ud, DraftKeys)

\* C17: a cancel event (the command /cancel or the cancel button) in any
\* state of a session clears the bag and ends the conversation.
C17_CancelClearsSession ==
    [][((CancelCommand \/ CancelButton) /\ task_state \in SessionStates)
       => (task_state' = END /\ user_data' = EmptyBag)]_vars

\* a task-start trigger has created a session
SessionCreated ==
    /\ task_state' = WAIT_TITLE
    /\ ticket_seq' = ticket_seq + 1
    /\ user_data'["ticket_id"] = ticket_seq'
    /\ user_data'["files"] = <<>>
    /\ DOMAIN user_data' \cap DraftKeys = {"ticket_id", "files"}

\* C18 as stated: every task-start trigger, in any state, creates a session.
C18_TriggerCreatesSession ==
    [][(TaskCommand \/ CreateButtonText \/ StartTaskButton)
       => SessionCreated]_vars

\* C18 as amended: the start button, and the command and the button text of
\* a linked and allowed user, create a session in any state: WAIT_TITLE, a
\* new ticket id, no staged file, no title or description; the command and
\* the button text of a user who is not linked or not allowed create none:
\* the conversation ends and the draft in the bag stays as it was.
C18_AllowedTriggerCreatesSession ==
    /\ [][StartTaskButton => SessionCreated]_vars
    /\ [][((TaskCommand \/ CreateButtonText) /\ linked # None /\ settings.allowed)
          => SessionCreated]_vars
    /\ [][((TaskCommand \/ CreateButtonText)
           /\ ~(linked # None /\ settings.allowed))
          => (/\ task_state' = END
              /\ ticket_seq' = ticket_seq
              /\ Draft(user_data') = Draft(user_data))]_vars

\* the command /task has started the second session of the user
C18_Witness ==
    /\ handlers = <<"hydrate_link", "cmd_task">>
    /\ task_state = WAIT_TITLE
    /\ ticket_seq = 2
    /\ user_data["ticket_id"] = 2
    /\ user_data["files"] = <<>>

\* the messages that ask again for the input a state expects
Reprompts ==
    {"ask_title", "title_empty", "ask_description", "description_empty",
     "ask_attachments", "limit", "too_large", "review"}

\* an event the state of the session has no handler for: a file outside
\* WAIT_ATTACHMENTS, a text in WAIT_ATTACHMENTS or CONFIRM (the /link
\* conversation not waiting for it), a button of another state
UnrecognizedEvent ==
    \/ /\ task_state \in {WAIT_TITLE, WAIT_DESCRIPTION, CONFIRM}
       /\ AttachmentMessage
    \/ /\ task_state \in {WAIT_ATTACHMENTS, CONFIRM}
       /\ link_state = END
       /\ TextMessage
    \/ /\ task_state \in {WAIT_TITLE, WAIT_DESCRIPTION, WAIT_ATTACHMENTS}
       /\ ConfirmButtonElsewhere
    \/ /\ task_state \in {WAIT_TITLE, WAIT_DESCRIPTION, CONFIRM}
       /\ AttachmentsDoneButton

\* C19: an event not recognized for the state of the session is answered
\* with a re-prompt and leaves the state and the draft as they were.
C19_UnrecognizedReprompts ==
    [][UnrecognizedEvent =>
         /\ task_state' = task_state
         /\ Draft(user_data') = Draft(user_data)
         /\ \E k \in 1..Len(sent') : sent'[k].kind \in Reprompts]_vars

\* C20: an upload failure that is a failure to read the reply (no JSON, no
\* file id) is terminal whatever the reply holds: the file fails at once.
C20_ShapeFailureTerminal ==
    [][\A i \in Files : \A out \in UploadOutcomes(i) :
          (~out.ok /\ out.exc.cause = "shape" /\ UploadReturnsWith(i, out))
          => tasks'[i].st = "failed"]_vars

\* ------------------------------------------------------------------------
\* Properties of the classifier, the steps of the session and the submission
\* ------------------------------------------------------------------------
\* the text of a structured error holds a word of the transient vocabulary
MatchesVocabulary(exc) ==
    \E m \in Markers :
       \/ \E k \in 1..Len(exc.message) : Lower(exc.message[k]) = m
       \/ \E k \in 1..Len(exc.details) : Lower(exc.details[k]) = m

\* what the classifier is to answer for a failure
ExpectedRetryable(exc) ==
    \/ exc.cls = "TransportError"
    \/ exc.cls = "BitrixError" /\ MatchesVocabulary(exc)

C22_TitleAndDescriptionSteps ==
    [][\A text \in Texts :
          (TextEvent(text) /\ task_state \in {WAIT_TITLE, WAIT_DESCRIPTION}) =>
             LET key == IF task_state = WAIT_TITLE
                        THEN "title" ELSE "description"
             IN
             IF Strip(text) # <<>>
             THEN /\ task_state' = task_state + 1
                  /\ user_data'[key] = Strip(text)
                  /\ Restrict(user_data', DraftKeys \ {key})
                       = Restrict(user_data, DraftKeys \ {key})
             ELSE /\ task_state' = task_state
                  /\ Draft(user_data') = Draft(user_data)
                  /\ sent'[1].kind
                       = (IF task_state = WAIT_TITLE
                          THEN "title_empty" ELSE "description_empty")]_vars

\* a blank description was answered with the re-prompt, the title kept
C22_Witness ==
    /\ task_state = WAIT_DESCRIPTION
    /\ handlers = <<"hydrate_link", "on_description", "maybe_show_menu">>
    /\ sent[1] = Msg("description_empty")
    /\ "title" \in DOMAIN user_data
    /\ "description" \notin DOMAIN user_data

\* the last create_task call of the confirm returned a task id
TaskReported == loc.outcomes # <<>> /\ Last(loc.outcomes).ok

\* C23: a confirm that returns without a created task has sent, as its last
\* message, the message of the path it took (missing data, not linked, no
\* file uploaded, create_task failed), and the bag is cleared.
C23_FailureIsReported ==
    (ConfirmReturned /\ ~TaskReported) =>
       /\ sent # <<>>
       /\ Last(sent).kind =
            (IF loc.title = <<>> \/ loc.user_desc = <<>> THEN "missing_data"
             ELSE IF linked = None THEN "not_linked"
             ELSE IF loc.outcomes = <<>> THEN "nothing_uploaded"
             ELSE "create_failed")
       /\ user_data = EmptyBag

\* a confirm has ended on a failed first create_task call that is not
\* retried
C23_Witness ==
    /\ ConfirmReturned
    /\ Len(loc.outcomes) = 1
    /\ ~loc.outcomes[1].ok
    /\ Last(sent) = Msg("create_failed")

\* files is an extension of old at its end
IsPrefix(old, files) ==
    Len(old) <= Len(files) /\ SubSeq(files, 1, Len(old)) = old

\* C24: an accepted attachment appends one staged file at the end of the
\* list and leaves the staged files, the title, the description, the ticket
\* id and the state as they were; while the bag holds the ticket id of a
\* session its staged files are neither changed nor removed.
C24_AppendOnly ==
    /\ [][\A att \in Attachments(user_data) :
            (/\ task_state = WAIT_ATTACHMENTS
             /\ Len(StagedNow) < MAX_ATTACHMENTS_PER_TASK
             /\ att.file_size <= MAX_ATTACHMENT_BYTES
             /\ AttachmentEvent(att))
            => (/\ Len(Get(user_data', "files", <<>>)) = Len(StagedNow) + 1
                /\ IsPrefix(StagedNow, Get(user_data', "files", <<>>))
                /\ Last(Get(user_data', "files", <<>>)).original_name = att.name
                /\ Restrict(user_data', DraftKeys \ {"files"})
                     = Restrict(user_data, DraftKeys \ {"files"})
                /\ downloads' = 1
                /\ task_state' = WAIT_ATTACHMENTS)]_vars
    /\ [][("ticket_id" \in DOMAIN user_data
           /\ "ticket_id" \in DOMAIN user_data'
           /\ user_data'["ticket_id"] = user_data["ticket_id"])
          => IsPrefix(StagedNow, Get(user_data', "files", <<>>))]_vars

\* a second file was staged after the first
C24_Witness ==
    /\ task_state = WAIT_ATTACHMENTS
    /\ handlers = <<"hydrate_link", "on_attachment">>
    /\ sent[1].kind = "saved"
    /\ Len(StagedNow) = 2

\* C25: a confirm calls create_task only when title and description are not
\* empty, the user is linked and no file is staged or one is uploaded, and
\* when it has returned it has called create_task exactly under these
\* conditions; for a user who is not linked nothing is uploaded; the first
\* call names a creator.
C25_SubmissionCharacterised ==
    LET submittable ==
            /\ loc.title # <<>>
            /\ loc.user_desc # <<>>
            /\ linked # None
            /\ (loc.files = <<>> \/ UploadedFiles # {})
    IN
    ConfirmRan =>
       /\ calls # <<>> => submittable
       /\ pc = "idle" => (calls # <<>> <=> submittable)
       /\ linked = None => (tasks = <<>> /\ calls = <<>>)
       /\ calls # <<>> =>
            (calls[1].created_by # None /\ calls[1].created_by = linked)

\* a confirm of a draft with files has created the task with one call
C25_Witness ==
    /\ ConfirmReturned
    /\ loc.files # <<>>
    /\ Len(calls) = 1
    /\ Last(sent).kind = "created"

\* C26: in a state of the session the bag holds a ticket id and a list of
\* staged files, from WAIT_DESCRIPTION on a title that is not blank, from
\* WAIT_ATTACHMENTS on a description that is not blank; on_attachment never
\* answers that the session is missing.
C26_LiveSession ==
    /\ task_state \in SessionStates =>
         /\ Get(user_data, "ticket_id", None) # None
         /\ "files" \in DOMAIN user_data
    /\ task_state \in {WAIT_DESCRIPTION, WAIT_ATTACHMENTS, CONFIRM} =>
         Strip(Get(user_data, "title", <<>>)) # <<>>
    /\ task_state \in {WAIT_ATTACHMENTS, CONFIRM} =>
         Strip(Get(user_data, "description", <<>>)) # <<>>
    /\ \A k \in 1..Len(sent) : sent[k] # Msg("session_missing")

\* files are being staged in the second session of the user
C26_Witness ==
    /\ task_state = WAIT_ATTACHMENTS
    /\ ticket_seq = 2
    /\ Len(StagedNow) = 1

\* C27: outside a session (the conversation ended or never started) the bag
\* holds no ticket id, title, description or staged files.
C27_NoStaleDraft ==
    (task_state = END /\ pc = "idle") => DOMAIN user_data \cap DraftKeys = {}

\* the tasks the portal has created for the calls of the last confirm
TasksCreated ==
    Cardinality({k \in 1..Len(loc.outcomes) : loc.outcomes[k].created})

\* C28: cb_confirm_create runs only in CONFIRM and leaves the conversation
\* ended, a confirm button pressed elsewhere starts no upload and no
\* create_task call, a session starts only with a new ticket id; so a
\* session has at most one confirm, and at most one task is created for it.
C28_OneTaskPerSession ==
    /\ [][ConfirmButton => task_state = CONFIRM]_vars
    /\ [][ConfirmButtonElsewhere =>
            (/\ tasks' = <<>>
             /\ calls' = <<>>
             /\ pc' = "idle"
             /\ UNCHANGED <<task_state, user_data>>)]_vars
    /\ [][(task_state = END /\ task_state' # END) =>
            ticket_seq' = ticket_seq + 1]_vars
    /\ [](ConfirmReturned => task_state = END)
    /\ [](TasksCreated <= 1)

\* C29: the upload ends: every file gets its outcome, every slot is free
\* again and _upload_files_to_bitrix_disk has returned.
C29_UploadTerminates ==
    <>(/\ pc # "uploading"
       /\ \A i \in Files : tasks[i].st \in {"uploaded", "failed"}
       /\ semaphore = Max(1, Min(settings.bitrix_upload_parallelism, Len(tasks))))

\* the upload of the longest file list has returned with one slot for a
\* parallelism of zero
C29_Witness ==
    /\ pc # "uploading"
    /\ settings.bitrix_upload_parallelism = 0
    /\ Len(tasks) = MaxUploadFiles
    /\ \A i \in Files : tasks[i].st \in {"uploaded", "failed"}
    /\ semaphore = 1

====
